---- MODULE Spec2Model ----
(***************************************************************************)
(* A model of ortho_gen: fitting a circle through three picked points,     *)
(* building the partial-torus tool mesh, checking a mesh and subtracting   *)
(* the tool from the stored model through the strategy cascade.            *)
(*                                                                         *)
(* Geometry is computed in exact arithmetic.  A rational is a reduced pair *)
(* <<n, d>> with d > 0.  Every square root taken by the code (np.linalg.   *)
(* norm) is kept symbolic: a scalar [q, r] stands for q * sqrt(r) and a    *)
(* vector [v, r] for v * sqrt(r), q, r and the coordinates of v rational.  *)
(***************************************************************************)
EXTENDS Integers, Sequences, FiniteSets, TLC

VARIABLES
    fit_in,      \* the arguments (p1, p2, p3) of the fit_circle_3d call
    fit_out,     \* its return value, Pending before the call returns
    tor_in,      \* generate_torus_segment: resolution and the angles of p2, p3
    tor_out,     \* the mesh it builds, Pending before the call returns
    ops_in,      \* boolean_ops called directly: the target and the tool mesh
    val_out,     \* what check_mesh_validity returned, Pending before
    call,        \* the subtract_meshes call in progress: position, arguments,
                 \* the strategies attempted so far and the value returned
    ui,          \* which viewer runs: "qt" (viewer.py) or "web" (web_viewer.py)
    source_mesh_tri,  \* the stored model, for operations
    source_mesh_pv,   \* the stored model, for display
    plotted,          \* the mesh the plotter shows (actor 'source_mesh')
    picked_points,
    minor_radius,     \* self.minor_radius / state.minor_radius
    preview,          \* the tool shown as actor 'torus_preview', or None
    can_preview,      \* btn_preview enabled / state.can_preview
    can_subtract,     \* btn_subtract enabled / state.can_subtract
    status            \* lbl_status / state.status_message

geomVars == <<fit_in, fit_out, tor_in, tor_out>>
opsVars == <<ops_in, val_out>>
uiVars == <<ui, source_mesh_tri, source_mesh_pv, plotted, picked_points,
            minor_radius, preview, can_preview, can_subtract, status>>
vars == <<geomVars, opsVars, call, uiVars>>
\* Everything a step of subtract_meshes leaves alone.
notCall == <<geomVars, opsVars, uiVars>>

\* Grid of the sample points: x in 0..MaxX, y and z in 0..MaxYZ.
MaxX == 2
MaxYZ == 1

\* Angles are whole multiples of a full turn / AngleUnits.
AngleUnits == 4
\* The resolutions tried are 1..MaxResolution and the default.
MaxResolution == 36
DefaultResolution == 64

\* A component no call of the specification at hand uses.
Idle == [kind |-> "idle"]

NoGeometry ==
    /\ fit_in = Idle
    /\ fit_out = Idle
    /\ tor_in = Idle
    /\ tor_out = Idle

NoViewer ==
    /\ ui = "none"
    /\ source_mesh_tri = Idle
    /\ source_mesh_pv = Idle
    /\ plotted = Idle
    /\ picked_points = <<>>
    /\ minor_radius = 0
    /\ preview = Idle
    /\ can_preview = FALSE
    /\ can_subtract = FALSE
    /\ status = ""

\* A return value: Python's None, or a tuple of the returned components.
Pending == [kind |-> "pending"]
None == [kind |-> "None"]
Tuple(t) == [kind |-> "tuple", val |-> t]

------------------------------------------------------------------------------
(* Exact rational arithmetic.                                              *)

Abs(n) == IF n < 0 THEN -n ELSE n

RECURSIVE GCD(_, _)
GCD(a, b) == IF b = 0 THEN a ELSE GCD(b, a % b)

Rat(n, d) ==
    LET s == IF d < 0 THEN -1 ELSE 1
        g == GCD(Abs(n), Abs(d))
    IN  <<(s * n) \div g, (s * d) \div g>>

RInt(n) == <<n, 1>>
RZero == <<0, 1>>
ROne == <<1, 1>>

RAdd(a, b) ==
    LET g == GCD(a[2], b[2])
        l == (a[2] \div g) * b[2]
    IN  Rat(a[1] * (l \div a[2]) + b[1] * (l \div b[2]), l)

RNeg(a) == <<-a[1], a[2]>>
RSub(a, b) == RAdd(a, RNeg(b))

RMul(a, b) ==
    LET g1 == GCD(Abs(a[1]), b[2])
        g2 == GCD(Abs(b[1]), a[2])
    IN  IF a[1] = 0 \/ b[1] = 0 THEN RZero
        ELSE <<(a[1] \div g1) * (b[1] \div g2), (a[2] \div g2) * (b[2] \div g1)>>

RInv(a) == IF a[1] < 0 THEN <<-a[2], -a[1]>> ELSE <<a[2], a[1]>>
RDiv(a, b) == RMul(a, RInv(b))

------------------------------------------------------------------------------
(* Vectors of rationals, and the symbolic square roots.                    *)

RVec(p) == <<RInt(p[1]), RInt(p[2]), RInt(p[3])>>
VAdd(a, b) == <<RAdd(a[1], b[1]), RAdd(a[2], b[2]), RAdd(a[3], b[3])>>
VSub(a, b) == <<RSub(a[1], b[1]), RSub(a[2], b[2]), RSub(a[3], b[3])>>
VScale(k, a) == <<RMul(k, a[1]), RMul(k, a[2]), RMul(k, a[3])>>
VDot(a, b) == RAdd(RAdd(RMul(a[1], b[1]), RMul(a[2], b[2])), RMul(a[3], b[3]))
VCross(a, b) ==
    <<RSub(RMul(a[2], b[3]), RMul(a[3], b[2])),
      RSub(RMul(a[3], b[1]), RMul(a[1], b[3])),
      RSub(RMul(a[1], b[2]), RMul(a[2], b[1]))>>

\* q * sqrt(r)
Surd(q, r) == [q |-> q, r |-> r]
SSq(s) == RMul(RMul(s.q, s.q), s.r)
SMul(s, t) == Surd(RMul(s.q, t.q), RMul(s.r, t.r))
SDiv(s, t) == Surd(RDiv(s.q, t.q), RDiv(s.r, t.r))
SScale(k, s) == Surd(RMul(k, s.q), s.r)
\* A difference of two multiples of the same root.
SSub(s, t) ==
    IF s.q = RZero THEN Surd(RNeg(t.q), t.r)
    ELSE IF t.q = RZero THEN s
    ELSE IF s.r = t.r THEN Surd(RSub(s.q, t.q), s.r)
    ELSE "incommensurable"

\* v * sqrt(r)
SVec(v, r) == [v |-> v, r |-> r]
\* np.linalg.norm of a rational vector: sqrt(v . v)
VNorm(v) == Surd(ROne, VDot(v, v))
\* v / s
VOver(v, s) == SVec(VScale(RInv(s.q), v), RInv(s.r))
SVCross(a, b) == SVec(VCross(a.v, b.v), RMul(a.r, b.r))
\* np.dot of a rational vector with a symbolic one
SVDot(v, a) == Surd(VDot(v, a.v), a.r)
\* s * a, as a rational vector when the roots cancel
SVTimes(s, a) ==
    IF s.q = RZero THEN <<RZero, RZero, RZero>>
    ELSE IF RMul(s.r, a.r) = ROne THEN VScale(s.q, a.v)
    ELSE "irrational"

------------------------------------------------------------------------------
(* geometry/circle_fit.py                                                  *)

\* The rows of the perpendicular-bisector system, 2*x_i*cx + 2*y_i*cy.
fit_matrix_unscaled(p2_2d, p3_2d) ==
    <<<<p2_2d[1], p2_2d[2]>>, <<p3_2d[1], p3_2d[2]>>>>

fit_matrix(p2_2d, p3_2d) ==
    <<<<SScale(RInt(2), p2_2d[1]), SScale(RInt(2), p2_2d[2])>>,
      <<SScale(RInt(2), p3_2d[1]), SScale(RInt(2), p3_2d[2])>>>>

\* Its right-hand side, x_i^2 + y_i^2.
fit_rhs(p2_2d, p3_2d) ==
    <<RAdd(SSq(p2_2d[1]), SSq(p2_2d[2])), RAdd(SSq(p3_2d[1]), SSq(p3_2d[2]))>>

\* What the call returns for points that span no plane.
fit_degenerate_partial(p1) == Tuple(<<p1, Surd(ROne, RZero)>>)

fit_degenerate(p1) == None

\* Lines 75-79: the basis in the circle's plane, and the returned tuple.
fit_result(p1, normal, radius, center) ==
    LET basis_u == VOver(VSub(p1, center), VNorm(VSub(p1, center)))
    IN  Tuple(<<center, radius, normal, basis_u, SVCross(normal, basis_u)>>)

\* Lines 69-72: the radius, and the center carried back to 3D.
fit_center(p1, normal, u, w, cx, cy) ==
    fit_result(p1, normal,
               Surd(ROne, RAdd(SSq(cx), SSq(cy))),
               VAdd(VAdd(p1, SVTimes(cx, u)), SVTimes(cy, w)))

\* Lines 63-66: np.linalg.solve(A, b), by Cramer's rule.
fit_solve(p1, normal, u, w, A, b) ==
    LET det == SSub(SMul(A[1][1], A[2][2]), SMul(A[1][2], A[2][1]))
    IN  IF det.q = RZero THEN None    \* LinAlgError: singular matrix
        ELSE fit_center(p1, normal, u, w,
                 SDiv(SSub(SScale(b[1], A[2][2]), SScale(b[2], A[1][2])), det),
                 SDiv(SSub(SScale(b[2], A[1][1]), SScale(b[1], A[2][1])), det))

\* Lines 54-61: the linear system of the projected points.
fit_system(p1, normal, u, w, p2_2d, p3_2d) ==
    fit_solve(p1, normal, u, w, fit_matrix(p2_2d, p3_2d), fit_rhs(p2_2d, p3_2d))

\* Lines 42-47: the second axis, and p2, p3 projected on the plane's axes.
fit_project(p1, v1, v2, normal, u) ==
    LET w == SVCross(normal, u)
    IN  fit_system(p1, normal, u, w,
                   <<SVDot(v1, u), SVDot(v1, w)>>, <<SVDot(v2, u), SVDot(v2, w)>>)

fit_circle_3d(q1, q2, q3) ==
    LET p1 == RVec(q1)
        v1 == VSub(RVec(q2), RVec(q1))
        v2 == VSub(RVec(q3), RVec(q1))
        normal0 == VCross(VSub(RVec(q2), RVec(q1)), VSub(RVec(q3), RVec(q1)))
    IN  \* norm_mag < 1e-10: the squared norm of an integer vector is an
        \* integer, so it is below 1e-20 exactly when it is 0
        IF VNorm(normal0).r = RZero THEN fit_degenerate(p1)
        ELSE fit_project(p1, v1, v2,
                         VOver(normal0, VNorm(normal0)), VOver(v1, VNorm(v1)))

------------------------------------------------------------------------------
(* The specification of fit_circle_3d over the grid of sample points.      *)

Points == {<<x, y, z>> : x \in 0..MaxX, y \in 0..MaxYZ, z \in 0..MaxYZ}

FitInit ==
    /\ fit_in \in Points \X Points \X Points
    /\ fit_out = Pending
    /\ tor_in = Idle
    /\ tor_out = Idle
    /\ ops_in = Idle
    /\ val_out = Idle
    /\ call = Idle
    /\ NoViewer

FitCall ==
    /\ fit_out = Pending
    /\ fit_out' = fit_circle_3d(fit_in[1], fit_in[2], fit_in[3])
    /\ UNCHANGED <<fit_in, tor_in, tor_out, opsVars, call, uiVars>>

\* torus_generator.py on the fitted circle.  An angle is kept exact as the
\* direction <<x, y>> it is the arctan2(y, x) % 2pi of.
get_angle(p, center, basis_u, basis_w) ==
    [x |-> SVDot(VSub(p, center), basis_u),
     y |-> SVDot(VSub(p, center), basis_w)]

\* The sign of q * sqrt(r).
SSign(s) ==
    IF s.r = RZero \/ s.q = RZero THEN 0 ELSE IF s.q[1] < 0 THEN -1 ELSE 1

\* 0 for an angle in [0, pi), 1 for an angle in [pi, 2pi).
HalfTurn(a) ==
    IF SSign(a.y) > 0 \/ (SSign(a.y) = 0 /\ SSign(a.x) >= 0) THEN 0 ELSE 1

\* a < b, for angles in [0, 2pi): by half turn, then by the cross product.
AngleLess(a, b) ==
    \/ HalfTurn(a) < HalfTurn(b)
    \/ /\ HalfTurn(a) = HalfTurn(b)
       /\ SSign(SSub(SMul(a.x, b.y), SMul(a.y, b.x))) > 0

\* w = np.cross(normal, u)
segment_w_flipped(normal, u) == SVCross(u, normal)

segment_w(normal, u) == SVCross(normal, u)

\* Lines 34-55: the basis from p1, the angles of p2 and p3, and whether
\* theta3 is unwrapped by a full turn (theta2 > theta3).
segment_sweep(center, normal, q1, q2, q3) ==
    LET u == VOver(VSub(RVec(q1), center), VNorm(VSub(RVec(q1), center)))
        theta2 == get_angle(RVec(q2), center, u, segment_w(normal, u))
        theta3 == get_angle(RVec(q3), center, u, segment_w(normal, u))
    IN  [kind |-> "sweep", theta2 |-> theta2, theta3 |-> theta3,
         unwrapped |-> AngleLess(theta3, theta2)]

\* generate_torus_segment(center, normal, major_radius, minor_radius,
\* *picked_points), as both viewers call it on the result of the fit.
FitSweep ==
    /\ fit_out.kind = "tuple"
    /\ tor_out = Idle
    /\ tor_in' = [center |-> fit_out.val[1], normal |-> fit_out.val[3],
                  points |-> fit_in]
    /\ tor_out' = segment_sweep(fit_out.val[1], fit_out.val[3],
                                fit_in[1], fit_in[2], fit_in[3])
    /\ UNCHANGED <<fit_in, fit_out, opsVars, call, uiVars>>

FitNext ==
    \/ FitCall
    \/ FitSweep

SpecFit == FitInit /\ [][FitNext]_vars

\* The points lie on one line (or coincide): a*(p2 - p1) = b*(p3 - p1) for
\* integers a, b not both 0.
Collinear(t) ==
    \E a, b \in -(MaxX + MaxYZ)..(MaxX + MaxYZ) :
        /\ <<a, b>> # <<0, 0>>
        /\ \A k \in 1..3 : a * (t[2][k] - t[1][k]) = b * (t[3][k] - t[1][k])

IsRat(x) == x \in Int \X Int /\ x[2] > 0
IsUnit(a) == RMul(VDot(a.v, a.v), a.r) = ROne

\* The complete 5-tuple (center, radius, normal, basis_u, basis_w).
CompleteCircle(o) ==
    /\ o.kind = "tuple"
    /\ Len(o.val) = 5
    /\ \A k \in 1..3 : IsRat(o.val[1][k])
    /\ SSq(o.val[2])[1] > 0
    /\ IsUnit(o.val[3])
    /\ IsUnit(o.val[4])
    /\ IsUnit(o.val[5])

DistSq(a, b) == VDot(VSub(a, b), VSub(a, b))

\* C7: on collinear or coincident points fit_circle_3d returns None, and
\* every call returns either None or the complete 5-tuple, never a part.
C7_CollinearIsNone ==
    fit_out # Pending =>
        /\ Collinear(fit_in) => fit_out = None
        /\ fit_out = None \/ CompleteCircle(fit_out)

C7_Witness ==
    /\ fit_in = <<<<0, 0, 0>>, <<1, 0, 0>>, <<2, 0, 0>>>>
    /\ fit_out = None

\* The angle 0, of p1.
AngleZero == [x |-> Surd(ROne, ROne), y |-> Surd(RZero, ROne)]

\* C18: with the center and the normal returned by fit_circle_3d for the
\* same three points, 0 < angle(p2) < angle(p3) < 2pi: the unwrap branch is
\* not taken and total_sweep = angle(p3) is less than one full turn.
C18_NoUnwrapAfterFit ==
    tor_out.kind = "sweep" =>
        /\ AngleLess(AngleZero, tor_out.theta2)
        /\ AngleLess(tor_out.theta2, tor_out.theta3)
        /\ ~tor_out.unwrapped

\* p3 lies more than half a turn from p1, p2 less.
C18_Witness ==
    /\ tor_out.kind = "sweep"
    /\ HalfTurn(tor_out.theta2) = 0
    /\ HalfTurn(tor_out.theta3) = 1
    /\ ~tor_out.unwrapped

\* C8: for non-collinear points the call returns a center and a radius,
\* the center is at distance radius from each of p1, p2, p3 and lies in the
\* plane of the three points.
C8_Equidistant ==
    (fit_out # Pending /\ ~Collinear(fit_in)) =>
        /\ fit_out.kind = "tuple"
        /\ \A i \in 1..3 :
              DistSq(fit_out.val[1], RVec(fit_in[i])) = SSq(fit_out.val[2])
        /\ VDot(VSub(fit_out.val[1], RVec(fit_in[1])), fit_out.val[3].v) = RZero

C8_Witness ==
    /\ fit_in = <<<<0, 0, 0>>, <<2, 0, 0>>, <<0, 1, 1>>>>
    /\ fit_out.kind = "tuple"
    /\ fit_out.val[1] = <<<<1, 1>>, <<1, 2>>, <<1, 2>>>>
    /\ SSq(fit_out.val[2]) = <<3, 2>>

------------------------------------------------------------------------------
(* geometry/torus_generator.py                                             *)

Max(a, b) == IF a > b THEN a ELSE b

\* theta3 after the unwrap: the sweep from angle 0, in angle units.
total_sweep_nounwrap(theta2, theta3) == theta3

total_sweep(theta2, theta3) ==
    IF theta2 > theta3 THEN theta3 + AngleUnits ELSE theta3

\* max(int(resolution * (total_sweep / 2pi)), 8) + 1
n_major_of(resolution, sweep) ==
    Max((resolution * sweep) \div AngleUnits, 8) + 1

\* max(resolution // 2, 16)
n_minor_unclamped(resolution) == resolution \div 2

n_minor_of(resolution) == Max(resolution \div 2, 16)

\* The row after row i around the tube.
ring_next_nowrap(i, n_minor) == i + 1

ring_next(i, n_minor) == (i + 1) % n_minor

\* The two triangles of each grid quad, in the order the loops append them:
\* quad (i, j) for i in range(n_minor), j in range(n_major - 1).
side_faces(n_major, n_minor) ==
    [k \in 1..(2 * n_minor * (n_major - 1)) |->
        LET quad == (k - 1) \div 2
            r0 == quad \div (n_major - 1)
            r1 == ring_next(r0, n_minor)
            c0 == quad % (n_major - 1)
            c1 == c0 + 1
            idx00 == r0 * n_major + c0
            idx10 == r1 * n_major + c0
            idx01 == r0 * n_major + c1
            idx11 == r1 * n_major + c1
        IN  IF (k - 1) % 2 = 0 THEN <<idx00, idx01, idx11>>
            ELSE <<idx00, idx11, idx10>>]

\* [start_center_idx, idx1, idx0] for i in range(n_minor)
start_cap_faces(n_major, n_minor) ==
    [k \in 1..n_minor |->
        LET i == k - 1
            i_next == ring_next(i, n_minor)
            start_center_idx == n_minor * n_major
        IN  <<start_center_idx, i_next * n_major, i * n_major>>]

\* [end_center_idx, idx0, idx1] for i in range(n_minor)
end_cap_faces(n_major, n_minor) ==
    [k \in 1..n_minor |->
        LET i == k - 1
            i_next == ring_next(i, n_minor)
            end_center_idx == n_minor * n_major + 1
        IN  <<end_center_idx, i * n_major + (n_major - 1),
              i_next * n_major + (n_major - 1)>>]

\* The mesh as constructed, before fix_normals: the grid's vertices are
\* 0..n_minor*n_major-1 (row-major), then the two cap centers.
generate_torus_segment(resolution, theta2, theta3) ==
    LET sweep == total_sweep(theta2, theta3)
        n_major == n_major_of(resolution, sweep)
        n_minor == n_minor_of(resolution)
    IN  [kind |-> "mesh",
         total_sweep |-> sweep,
         n_major |-> n_major,
         n_minor |-> n_minor,
         n_vertices |-> n_minor * n_major + 2,
         faces |-> side_faces(n_major, n_minor)
                     \o start_cap_faces(n_major, n_minor)
                     \o end_cap_faces(n_major, n_minor)]

------------------------------------------------------------------------------
(* The specification of generate_torus_segment over resolutions and angles *)
(* of p2 and p3 (get_angle returns a value in [0, 2pi)).                   *)

TorusInit ==
    /\ tor_in \in [resolution : (1..MaxResolution) \cup {DefaultResolution},
                   theta2 : 0..(AngleUnits - 1),
                   theta3 : 0..(AngleUnits - 1)]
    /\ tor_out = Pending
    /\ fit_in = Idle
    /\ fit_out = Idle
    /\ ops_in = Idle
    /\ val_out = Idle
    /\ call = Idle
    /\ NoViewer

TorusCall ==
    /\ tor_out = Pending
    /\ tor_out' = generate_torus_segment(tor_in.resolution, tor_in.theta2,
                                         tor_in.theta3)
    /\ UNCHANGED <<tor_in, fit_in, fit_out, opsVars, call, uiVars>>

TorusNext == TorusCall

SpecTorus == TorusInit /\ [][TorusNext]_vars

UEdge(a, b) == IF a < b THEN <<a, b>> ELSE <<b, a>>

FaceEdges(f) == {UEdge(f[1], f[2]), UEdge(f[2], f[3]), UEdge(f[3], f[1])}

\* The edges of faces lo..hi of a face list, sorted by the number of faces
\* that border them: one (c1), two (c2), three or more (c3).
MergeCounts(L, R) ==
    LET c3 == L.c3 \cup R.c3 \cup (L.c2 \cap (R.c1 \cup R.c2))
                   \cup (L.c1 \cap R.c2)
        c2 == (L.c2 \cup R.c2 \cup (L.c1 \cap R.c1)) \ c3
        c1 == (L.c1 \cup R.c1) \ (c2 \cup c3)
    IN  [c1 |-> c1, c2 |-> c2, c3 |-> c3]

RECURSIVE EdgeCounts(_, _, _)
EdgeCounts(fs, lo, hi) ==
    IF lo = hi THEN [c1 |-> FaceEdges(fs[lo]), c2 |-> {}, c3 |-> {}]
    ELSE LET mid == (lo + hi) \div 2
         IN  MergeCounts(EdgeCounts(fs, lo, mid), EdgeCounts(fs, mid + 1, hi))

\* No boundary edge and no edge with three or more faces.
Watertight(fs) ==
    LET c == EdgeCounts(fs, 1, Len(fs)) IN c.c1 = {} /\ c.c3 = {}

\* Every face is a triangle on three different vertices of the mesh.
ProperFaces(m) ==
    \A f \in 1..Len(m.faces) :
        /\ \A k \in 1..3 : m.faces[f][k] \in 0..(m.n_vertices - 1)
        /\ Cardinality({m.faces[f][1], m.faces[f][2], m.faces[f][3]}) = 3

\* C10: the face list of generate_torus_segment is watertight: every
\* undirected edge is shared by exactly two faces (no boundary edge, no edge
\* with three or more faces), for every resolution and every sweep.
C10_TorusWatertight ==
    tor_out.kind = "mesh" => ProperFaces(tor_out) /\ Watertight(tor_out.faces)

C10_Witness ==
    /\ tor_out.kind = "mesh"
    /\ tor_out.n_minor > 16
    /\ tor_out.n_major > 9
    /\ tor_out.total_sweep > AngleUnits
    /\ Len(tor_out.faces) = 2 * tor_out.n_minor * tor_out.n_major

\* The edges of a face in the direction its vertex order traverses them.
DirEdges(f) == {<<f[1], f[2]>>, <<f[2], f[3]>>, <<f[3], f[1]>>}

DirEdgesOf(fs) == UNION {DirEdges(fs[k]) : k \in DOMAIN fs}

\* The side faces and the cap faces of a built mesh, by their place in the
\* face list.
SideFacesOf(m) == SubSeq(m.faces, 1, 2 * m.n_minor * (m.n_major - 1))
CapFacesOf(m) ==
    SubSeq(m.faces, 2 * m.n_minor * (m.n_major - 1) + 1, Len(m.faces))

\* C11: in the face list as constructed, every ring edge shared by a cap
\* triangle and a side triangle is traversed in opposite directions by the
\* two: no cap triangle traverses an edge in the direction a side triangle
\* traverses it.
C11_CapsWoundWithSides ==
    tor_out.kind = "mesh" =>
        DirEdgesOf(CapFacesOf(tor_out)) \cap DirEdgesOf(SideFacesOf(tor_out))
            = {}

\* C12: total_sweep is theta3 when theta2 <= theta3 and theta3 plus a full
\* turn when theta2 > theta3; in every case theta2 <= total_sweep, so the arc
\* from angle 0 reaches p2 before it ends at p3.
C12_SweepRule ==
    tor_out.kind = "mesh" =>
        /\ tor_in.theta2 <= tor_in.theta3
              => tor_out.total_sweep = tor_in.theta3
        /\ tor_in.theta2 > tor_in.theta3
              => tor_out.total_sweep = tor_in.theta3 + AngleUnits
        /\ tor_in.theta2 <= tor_out.total_sweep

C12_Witness ==
    /\ tor_out.kind = "mesh"
    /\ tor_in.theta2 > tor_in.theta3
    /\ tor_in.theta3 > 0
    /\ tor_out.total_sweep = tor_in.theta3 + AngleUnits

\* The row and the column of a grid vertex (row-major: i * n_major + j).
RowOf(m, v) == v \div m.n_major
ColOf(m, v) == v % m.n_major

\* C13: n_minor = max(resolution // 2, 16) and n_major =
\* max(floor(resolution * total_sweep / 2pi), 8) + 1, so there are at least
\* 16 tube samples and 9 rings; the tube direction is periodic (the quads of
\* row i join it to row (i + 1) mod n_minor) and the sweep direction is open
\* (n_major - 1 quad columns, each joining column j to column j + 1).
C13_Resolution ==
    tor_out.kind = "mesh" =>
        LET m == tor_out
            sides == SideFacesOf(m)
        IN  /\ m.n_minor = Max(tor_in.resolution \div 2, 16)
            /\ m.n_major =
                  Max((tor_in.resolution * m.total_sweep) \div AngleUnits, 8)
                      + 1
            /\ m.n_minor >= 16
            /\ m.n_major >= 9
            /\ Len(sides) = 2 * m.n_minor * (m.n_major - 1)
            /\ \A k \in 1..Len(sides) :
                  LET f == sides[k]
                      i == RowOf(m, f[1])
                      j == ColOf(m, f[1])
                  IN  /\ j <= m.n_major - 2
                      /\ \A x \in 2..3 :
                            /\ RowOf(m, f[x]) \in {i, (i + 1) % m.n_minor}
                            /\ ColOf(m, f[x]) \in {j, j + 1}
            /\ \A i \in 0..(m.n_minor - 1), j \in 0..(m.n_major - 2) :
                  <<i * m.n_major + j, i * m.n_major + j + 1,
                    ((i + 1) % m.n_minor) * m.n_major + j + 1>>
                      = sides[2 * (i * (m.n_major - 1) + j) + 1]

C13_Witness ==
    /\ tor_out.kind = "mesh"
    /\ tor_in.resolution = 1
    /\ tor_out.n_minor = 16
    /\ tor_out.n_major = 9
    /\ Len(tor_out.faces) = 2 * 16 * 8 + 2 * 16

------------------------------------------------------------------------------
(* operations/boolean_ops.py                                               *)
(*                                                                         *)
(* A mesh is known by where it came from (id) and by the three properties  *)
(* the code reads: is_watertight, is_winding_consistent, is_empty.  The    *)
(* boolean engines are outside the repository: each attempt ends in one of *)
(* the outcomes the code distinguishes, chosen freely.                     *)

Mesh(id, wt, wc, empty) ==
    [kind |-> "mesh", id |-> id, wt |-> wt, wc |-> wc, empty |-> empty]

Raised(what) == [kind |-> "exception", what |-> what]

\* The cascade, in the order of the code.
STRATEGIES == <<"shell_clip", "direct", "manifold", "blender", "scad">>

\* engines = ['manifold', 'blender', 'scad']
engines == <<"manifold", "blender", "scad">>

\* A model is the file it was loaded from, the number of cuts made in it
\* since, and the strategy that made the last one.
Loaded(file) == [file |-> file, cuts |-> 0, by |-> "load"]
ResultOf(target, strategy) ==
    [file |-> target.id.file, cuts |-> target.id.cuts + 1, by |-> strategy]

\* What an attempt hands back for each outcome of the engine behind it: an
\* exception, None, an empty mesh, or the cut model (an open shell from the
\* clip, a solid from a volumetric engine).
attempt_result(strategy, target, outcome) ==
    CASE outcome = "unavailable" -> Raised("ImportError")
      [] outcome = "raise" -> Raised("Exception")
      [] outcome = "none" -> None
      [] outcome = "empty" ->
            Mesh(ResultOf(target, strategy), FALSE, FALSE, TRUE)
      [] outcome = "mesh" ->
            Mesh(ResultOf(target, strategy), strategy # "shell_clip", TRUE,
                 FALSE)

\* if not target_mesh.is_watertight:
shell_applies_always(target) == TRUE

shell_applies(target) == ~target.wt

\* result is not None and not result.is_empty (an exception goes to except)
succeeded_unless_raised(result) == result.kind = "mesh"

succeeded(result) == result.kind = "mesh" /\ ~result.empty

\* if target_mesh.is_watertight and tool_mesh.is_watertight:
fallback_applies(target, tool) == target.wt /\ tool.wt

\* The steps before the first try block can raise only where the caller
\* has not already imported pyvista and passes something that need not be a
\* Trimesh: the viewers import pyvista themselves.
entry_outcomes(caller) ==
    IF caller = "direct_call"
    THEN {"ok", "import_raises", "watertight_raises"}
    ELSE {"ok"}

NoCall ==
    [pc |-> "idle", caller |-> "none", target |-> None, tool |-> None,
     attempts |-> <<>>, engine |-> 0, ret |-> Pending]

NewCall(caller, target, tool) ==
    [pc |-> "enter", caller |-> caller, target |-> target, tool |-> tool,
     attempts |-> <<>>, engine |-> 0, ret |-> Pending]

Attempt(strategy, result) ==
    [strategy |-> strategy, target |-> call.target, tool |-> call.tool,
     result |-> result]

\* Lines 18-25: the imports, the debug print, the first is_watertight.
SubEnter ==
    /\ call.pc = "enter"
    /\ \E o \in entry_outcomes(call.caller) :
          call' = [call EXCEPT
              !.pc = IF o # "ok" THEN "raised"
                     ELSE IF shell_applies(call.target) THEN "shell"
                     ELSE "direct",
              !.ret = IF o # "ok" THEN Raised(o) ELSE Pending]
    /\ UNCHANGED notCall

\* Lines 26-48: the PyVista clip_surface of a shell.
SubShellClip ==
    /\ call.pc = "shell"
    /\ \E o \in {"raise", "empty", "mesh"} :
          LET result == attempt_result("shell_clip", call.target, o)
          IN  call' = [call EXCEPT
                  !.attempts = Append(@, Attempt("shell_clip", result)),
                  !.pc = IF succeeded(result) THEN "returned" ELSE "direct",
                  !.ret = IF succeeded(result) THEN result ELSE Pending]
    /\ UNCHANGED notCall

\* Lines 50-88: the direct manifold3d difference, then the test that guards
\* the fallback engines.
SubDirect ==
    /\ call.pc = "direct"
    /\ \E o \in {"unavailable", "raise", "empty", "mesh"} :
          LET result == attempt_result("direct", call.target, o)
          IN  call' = [call EXCEPT
                  !.attempts = Append(@, Attempt("direct", result)),
                  !.pc = IF succeeded(result) THEN "returned"
                         ELSE IF fallback_applies(call.target, call.tool)
                         THEN "fallback"
                         ELSE "failed",
                  !.engine = IF ~succeeded(result)
                                /\ fallback_applies(call.target, call.tool)
                             THEN 1 ELSE 0,
                  !.ret = IF succeeded(result) THEN result ELSE Pending]
    /\ UNCHANGED notCall

\* Lines 90-102: one turn of the loop over the engines.
SubFallback ==
    /\ call.pc = "fallback"
    /\ \E o \in {"raise", "none", "empty", "mesh"} :
          LET engine == engines[call.engine]
              result == attempt_result(engine, call.target, o)
          IN  call' = [call EXCEPT
                  !.attempts = Append(@, Attempt(engine, result)),
                  !.pc = IF succeeded(result) THEN "returned"
                         ELSE IF call.engine < Len(engines) THEN "fallback"
                         ELSE "failed",
                  !.engine = IF ~succeeded(result) /\ call.engine < Len(engines)
                             THEN call.engine + 1 ELSE 0,
                  !.ret = IF succeeded(result) THEN result ELSE Pending]
    /\ UNCHANGED notCall

\* Lines 104-106: return None.
SubReturnNone ==
    /\ call.pc = "failed"
    /\ call' = [call EXCEPT !.pc = "returned", !.ret = None]
    /\ UNCHANGED notCall

\* The message is the issues joined by "; "; the list stands for it.
check_mesh_validity_first_issue(mesh) ==
    IF ~mesh.wt THEN Tuple(<<FALSE, <<"Mesh is not watertight (has holes)">>>>)
    ELSE IF ~mesh.wc
    THEN Tuple(<<FALSE, <<"Mesh has inconsistent face winding">>>>)
    ELSE IF mesh.empty THEN Tuple(<<FALSE, <<"Mesh is empty">>>>)
    ELSE Tuple(<<TRUE, <<"Mesh is valid for boolean operations">>>>)

check_mesh_validity(mesh) ==
    LET i1 == IF ~mesh.wt THEN <<"Mesh is not watertight (has holes)">>
              ELSE <<>>
        i2 == IF ~mesh.wc THEN Append(i1, "Mesh has inconsistent face winding")
              ELSE i1
        issues == IF mesh.empty THEN Append(i2, "Mesh is empty") ELSE i2
    IN  IF Len(issues) = 0
        THEN Tuple(<<TRUE, <<"Mesh is valid for boolean operations">>>>)
        ELSE Tuple(<<FALSE, issues>>)

------------------------------------------------------------------------------
(* The specification of boolean_ops called directly, on any target and     *)
(* tool.                                                                   *)

Flags == [wt : BOOLEAN, wc : BOOLEAN, empty : BOOLEAN]

OpsInit ==
    /\ \E f \in Flags, toolwt \in BOOLEAN :
          ops_in = [target |-> Mesh(Loaded("target"), f.wt, f.wc, f.empty),
                    tool |-> Mesh(Loaded("tool"), toolwt, TRUE, FALSE)]
    /\ val_out = Pending
    /\ call = NoCall
    /\ NoGeometry
    /\ NoViewer

OpsValidity ==
    /\ val_out = Pending
    /\ val_out' = check_mesh_validity(ops_in.target)
    /\ UNCHANGED <<ops_in, call, geomVars, uiVars>>

OpsSubtract ==
    /\ call.pc = "idle"
    /\ call' = NewCall("direct_call", ops_in.target, ops_in.tool)
    /\ UNCHANGED notCall

OpsNext ==
    \/ OpsValidity
    \/ OpsSubtract
    \/ SubEnter
    \/ SubShellClip
    \/ SubDirect
    \/ SubFallback
    \/ SubReturnNone

SpecOps == OpsInit /\ [][OpsNext]_vars

\* An attempt that raised, or returned no mesh or an empty one.
Failed(result) ==
    \/ result.kind \in {"exception", "None"}
    \/ result.kind = "mesh" /\ result.empty

StrategyIndex(s) == CHOOSE k \in 1..Len(STRATEGIES) : STRATEGIES[k] = s

Tried(i) == call.attempts[i].strategy

\* C1: for a non-watertight target the shell clip is attempted before any
\* volumetric strategy; for a watertight target it is never attempted.
C1_ShellClipFirst ==
    call.pc # "idle" =>
        IF call.target.wt
        THEN \A i \in 1..Len(call.attempts) : Tried(i) # "shell_clip"
        ELSE /\ \A i \in 1..Len(call.attempts) :
                   Tried(i) # "shell_clip" =>
                       \E j \in 1..(i - 1) : Tried(j) = "shell_clip"
             /\ call.pc \in {"direct", "fallback", "failed", "returned"} =>
                   /\ call.attempts # <<>>
                   /\ Tried(1) = "shell_clip"

C1_Witness ==
    /\ call.pc = "returned"
    /\ ~call.target.wt
    /\ Len(call.attempts) = 2
    /\ Tried(1) = "shell_clip"
    /\ Tried(2) = "direct"
    /\ call.ret = call.attempts[2].result

\* C2: first success wins.  Every attempt but the last one failed, the
\* attempts follow the cascade order, an attempt that produced a non-empty
\* mesh ends the call with that mesh as the value returned, and a call that
\* returns None saw every attempt fail: a returned mesh is never empty.
C2_FirstSuccessWins ==
    LET n == Len(call.attempts) IN
    call.pc # "idle" =>
        /\ \A i \in 1..(n - 1) : Failed(call.attempts[i].result)
        /\ \A i, j \in 1..n :
              i < j => StrategyIndex(Tried(i)) < StrategyIndex(Tried(j))
        /\ (n > 0 /\ ~Failed(call.attempts[n].result)) =>
              call.pc = "returned" /\ call.ret = call.attempts[n].result
        /\ call.pc = "returned" =>
              IF call.ret = None
              THEN \A i \in 1..n : Failed(call.attempts[i].result)
              ELSE /\ n > 0
                   /\ call.ret = call.attempts[n].result
                   /\ call.ret.kind = "mesh"
                   /\ ~call.ret.empty

C2_Witness ==
    /\ call.pc = "returned"
    /\ Len(call.attempts) = 4
    /\ call.attempts[1].result.kind = "exception"
    /\ call.attempts[2].result = None
    /\ call.attempts[3].result.kind = "mesh" /\ call.attempts[3].result.empty
    /\ Tried(4) = "scad"
    /\ call.ret.kind = "mesh" /\ ~call.ret.empty

\* C4: no exception escapes subtract_meshes: whichever step fails, the call
\* ends by returning a mesh or None.
C4_NoExceptionEscapes == call.pc # "raised"

\* C5: the direct manifold3d difference is attempted only on a watertight
\* target and a watertight tool.
C5_DirectOnlyOnWatertight ==
    \A i \in 1..Len(call.attempts) :
        Tried(i) = "direct" =>
            call.attempts[i].target.wt /\ call.attempts[i].tool.wt

\* C6: whenever the direct difference was unavailable, raised or returned
\* empty, the engines manifold, blender, scad are attempted in that order
\* on the same target and tool, each only after the ones before it failed.
C6_FallbackChainRuns ==
    call.pc = "returned" =>
        \A k \in 1..Len(call.attempts) :
            (Tried(k) = "direct" /\ Failed(call.attempts[k].result)) =>
                LET rest == SubSeq(call.attempts, k + 1, Len(call.attempts))
                IN  /\ Len(rest) >= 1
                    /\ \A i \in 1..Len(rest) :
                          /\ rest[i].strategy = engines[i]
                          /\ rest[i].target = call.target
                          /\ rest[i].tool = call.tool
                          /\ i < Len(rest) => Failed(rest[i].result)
                    /\ Len(rest) < Len(engines) =>
                          ~Failed(rest[Len(rest)].result)

IssueOf == <<"Mesh is not watertight (has holes)",
             "Mesh has inconsistent face winding",
             "Mesh is empty">>

\* C9: the three checks are evaluated independently: the issues reported
\* are exactly the failing checks, in the order watertight, winding, empty,
\* and is_valid is true exactly when there is none.
C9_ValidityReportsAllIssues ==
    val_out.kind = "tuple" =>
        LET mesh == ops_in.target
            fails == <<~mesh.wt, ~mesh.wc, mesh.empty>>
            is_valid == val_out.val[1]
            issues == IF is_valid THEN <<>> ELSE val_out.val[2]
        IN  /\ is_valid <=> (\A k \in 1..3 : ~fails[k])
            /\ Len(issues) = Cardinality({k \in 1..3 : fails[k]})
            /\ \A k \in 1..3 :
                  fails[k] <=> \E i \in 1..Len(issues) : issues[i] = IssueOf[k]
            /\ \A i, j \in 1..Len(issues) :
                  i < j => \E k, l \in 1..3 :
                      k < l /\ issues[i] = IssueOf[k] /\ issues[j] = IssueOf[l]

C9_Witness ==
    /\ ~ops_in.target.wt /\ ~ops_in.target.wc /\ ops_in.target.empty
    /\ val_out = Tuple(<<FALSE, IssueOf>>)

------------------------------------------------------------------------------
(* gui/viewer.py (ui = "qt") and gui/web_viewer.py (ui = "web")            *)
(*                                                                         *)
(* A handler runs to completion before the next event is served; the       *)
(* Subtract handler is cut at its call of subtract_meshes, whose steps are *)
(* the Sub actions above.                                                  *)

MaxPickX == 1
MaxRadius == 2
MaxCuts == 1
\* self.minor_radius = 2.0
InitialRadius == 2

Files == {"solid", "shell"}
Radii == 1..MaxRadius
PickPoints == {<<x, 0, 0>> : x \in 0..MaxPickX} \cup {<<0, 1, 0>>}

\* trimesh.load(path)
FileMesh(file) == Mesh(Loaded(file), file = "solid", TRUE, FALSE)

\* pv.wrap(mesh), and pv.read(path) of the file that trimesh.load reads
pv_wrap(mesh) == [kind |-> "pv", of |-> mesh]
pv_read(file) == pv_wrap(FileMesh(file))

\* The torus segment through three points, as a tool mesh.
Torus(points, radius) ==
    Mesh([torus |-> points, minor_radius |-> radius], TRUE, TRUE, FALSE)

\* fit_circle_3d(*self.picked_points), tabulated once over the points that
\* can be picked (merging with the empty function enumerates the table).
fit_of_picked ==
    [t \in PickPoints \X PickPoints \X PickPoints |->
        fit_circle_3d(t[1], t[2], t[3])] @@ <<>>

_calculate_torus_unchecked(points, radius) ==
    IF Len(points) # 3 THEN None ELSE Torus(points, radius)

_calculate_torus(points, radius) ==
    IF Len(points) # 3 THEN None
    ELSE IF fit_of_picked[<<points[1], points[2], points[3]>>] = None THEN None
    ELSE Torus(points, radius)

\* if result is None or result.is_empty
subtraction_never_failed(result) == FALSE

subtraction_failed(result) == result = None \/ result.empty

StatusText(what) ==
    CASE what = "initial" ->
            IF ui = "qt" THEN "Load a model to begin"
            ELSE "Enter STL file path and click Load"
      [] what = "loaded" ->
            IF ui = "qt" THEN "Click on mesh to place Point 1"
            ELSE "Model loaded! Click on mesh to place Point 1"
      [] what = "three" ->
            IF ui = "qt" THEN "3 points selected. Preview or adjust radius."
            ELSE "3 points selected! Click Preview or Subtract"
      [] what = "failed" ->
            IF ui = "qt" THEN "Boolean operation failed"
            ELSE "Boolean operation failed! Try different points."
      [] what = "complete" ->
            IF ui = "qt" THEN "Subtraction complete! Click to add more points."
            ELSE "Subtraction complete! Select more points or export."

\* _show_preview: the status, the preview actor and the Subtract control
\* after a preview of the given points with the given radius.
_show_preview(points, radius, status_before) ==
    IF _calculate_torus(points, radius) = None
    THEN /\ status' = IF Len(points) = 3 THEN "Error: Points are collinear!"
                      ELSE status_before
         /\ UNCHANGED <<preview, can_subtract>>
    ELSE /\ status' = status_before
         /\ preview' = _calculate_torus(points, radius)
         /\ can_subtract' = TRUE

\* _clear_points / _clear_points_internal, but for the status line.
ClearedPointsOnly ==
    /\ picked_points' = <<>>
    /\ preview' = None
    /\ UNCHANGED <<can_preview, can_subtract>>

ClearedPoints ==
    /\ picked_points' = <<>>
    /\ preview' = None
    /\ can_preview' = FALSE
    /\ can_subtract' = FALSE

ViewerIdle == ui # "none" /\ call.pc = "idle"

Init ==
    /\ ui \in {"qt", "web"}
    /\ source_mesh_tri = None
    /\ source_mesh_pv = None
    /\ plotted = None
    /\ picked_points = <<>>
    /\ minor_radius = InitialRadius
    /\ preview = None
    /\ can_preview = FALSE
    /\ can_subtract = FALSE
    /\ status = StatusText("initial")
    /\ call = NoCall
    /\ ops_in = Idle
    /\ val_out = Idle
    /\ NoGeometry

\* _load_stl / _load_file with _load_stl_file: the file is read twice, by
\* pv.read and then by trimesh.load, and either read can raise.
UiLoad ==
    /\ ViewerIdle
    /\ \E file \in Files, radius \in Radii,
          o \in {"ok", "pv_read_raises", "trimesh_load_raises"} :
          /\ source_mesh_pv' = IF o = "pv_read_raises" THEN source_mesh_pv
                               ELSE pv_read(file)
          /\ IF o = "ok"
             THEN /\ source_mesh_tri' = FileMesh(file)
                  /\ minor_radius' = radius
                  /\ plotted' = pv_read(file)
                  /\ ClearedPoints
                  /\ status' = StatusText("loaded")
             ELSE /\ status' = IF ui = "web" THEN "Error loading" ELSE status
                  /\ UNCHANGED <<source_mesh_tri, minor_radius, plotted,
                                 picked_points, preview, can_preview,
                                 can_subtract>>
    /\ UNCHANGED <<ui, call, geomVars, opsVars>>

\* if len(self.picked_points) >= 3: return
pick_never_ignored(points) == FALSE

pick_ignored(points) == Len(points) >= 3

\* _on_point_picked: picking is enabled by a load that succeeded.
UiPick ==
    /\ ViewerIdle
    /\ source_mesh_tri # None
    /\ \E point \in PickPoints :
          IF pick_ignored(picked_points)
          THEN UNCHANGED <<picked_points, status, can_preview, preview,
                           can_subtract>>
          ELSE /\ picked_points' = Append(picked_points, point)
               /\ IF Len(picked_points) = 2
                  THEN /\ can_preview' = TRUE
                       /\ _show_preview(Append(picked_points, point),
                                        minor_radius, StatusText("three"))
                  ELSE /\ status' =
                            IF Len(picked_points) = 0
                            THEN "Click on mesh to place Point 2"
                            ELSE "Click on mesh to place Point 3"
                       /\ UNCHANGED <<can_preview, preview, can_subtract>>
    /\ UNCHANGED <<ui, source_mesh_tri, source_mesh_pv, plotted, minor_radius,
                   call, geomVars, opsVars>>

\* _clear_points, from the Clear Points button.
UiClear ==
    /\ ViewerIdle
    /\ ClearedPoints
    /\ status' = IF source_mesh_pv # None
                 THEN "Click on mesh to place Point 1" ELSE status
    /\ UNCHANGED <<ui, source_mesh_tri, source_mesh_pv, plotted, minor_radius,
                   call, geomVars, opsVars>>

\* The radius slider: _update_radius in Qt, which previews again; in the web
\* viewer the slider is bound to state.minor_radius and does nothing else.
UiRadius ==
    /\ ViewerIdle
    /\ \E radius \in Radii :
          /\ radius # minor_radius
          /\ minor_radius' = radius
          /\ IF ui = "qt" /\ Len(picked_points) = 3
             THEN _show_preview(picked_points, radius, status)
             ELSE UNCHANGED <<status, preview, can_subtract>>
    /\ UNCHANGED <<ui, source_mesh_tri, source_mesh_pv, plotted, picked_points,
                   can_preview, call, geomVars, opsVars>>

\* The Preview button, and the web viewer's Update Preview button
\* (_on_radius_change), which is never disabled.
UiPreview ==
    /\ ViewerIdle
    /\ can_preview \/ ui = "web"
    /\ _show_preview(picked_points, minor_radius, status)
    /\ UNCHANGED <<ui, source_mesh_tri, source_mesh_pv, plotted, picked_points,
                   minor_radius, can_preview, call, geomVars, opsVars>>

\* if not valid: a warning box, and the handler goes on.
warning_blocks_if_invalid(valid) == ~valid

warning_blocks(valid) == FALSE

\* _perform_subtraction up to its call of subtract_meshes: the torus is
\* computed again from the points and the radius held now; the Qt viewer
\* checks the model's validity and goes on whatever the answer.
UiSubtract ==
    /\ ViewerIdle
    /\ can_subtract
    /\ source_mesh_tri.id.cuts < MaxCuts
    /\ IF _calculate_torus(picked_points, minor_radius) = None
       THEN /\ status' = IF Len(picked_points) = 3
                         THEN "Error: Points are collinear!" ELSE status
            /\ UNCHANGED <<call, val_out>>
       ELSE /\ status' = "Processing boolean subtraction..."
            /\ val_out' = IF ui = "qt"
                          THEN check_mesh_validity(source_mesh_tri)
                          ELSE val_out
            /\ call' = IF ui = "qt"
                          /\ warning_blocks(
                                 check_mesh_validity(source_mesh_tri).val[1])
                       THEN call
                       ELSE NewCall(ui, source_mesh_tri,
                                    _calculate_torus(picked_points,
                                                     minor_radius))
    /\ UNCHANGED <<ui, source_mesh_tri, source_mesh_pv, plotted, picked_points,
                   minor_radius, preview, can_preview, can_subtract, ops_in,
                   geomVars>>

\* _perform_subtraction from the return of subtract_meshes on.
UiSubtractDone ==
    /\ ui # "none"
    /\ call.pc = "returned"
    /\ IF subtraction_failed(call.ret)
       THEN /\ status' = StatusText("failed")
            /\ UNCHANGED <<source_mesh_tri, source_mesh_pv, plotted,
                           picked_points, preview, can_preview, can_subtract>>
       ELSE /\ source_mesh_tri' = call.ret
            /\ source_mesh_pv' = pv_wrap(call.ret)
            /\ plotted' = pv_wrap(call.ret)
            /\ ClearedPoints
            /\ status' = StatusText("complete")
    /\ call' = NoCall
    /\ val_out' = Idle
    /\ UNCHANGED <<ui, minor_radius, ops_in, geomVars>>

Next ==
    \/ UiLoad
    \/ UiPick
    \/ UiClear
    \/ UiRadius
    \/ UiPreview
    \/ UiSubtract
    \/ SubEnter
    \/ SubShellClip
    \/ SubDirect
    \/ SubFallback
    \/ SubReturnNone
    \/ UiSubtractDone

Spec == Init /\ [][Next]_vars

\* C3: while every strategy tried by a call of subtract_meshes has failed
\* (or none applied), a step leaves the viewer's source_mesh_tri and
\* source_mesh_pv as they are, and a call that ends that way returns None:
\* the Subtract action then ends with the model held before it.
C3_FailureKeepsModel ==
    [][(call.pc # "idle"
        /\ \A i \in 1..Len(call.attempts) : Failed(call.attempts[i].result))
       => /\ call.pc = "returned" => call.ret = None
          /\ source_mesh_tri' = source_mesh_tri
          /\ source_mesh_pv' = source_mesh_pv]_vars

\* A Subtract action has just ended in failure after the whole cascade was
\* tried on a loaded solid, and the model is the loaded one.
C3_Witness ==
    /\ call.pc = "idle"
    /\ status = StatusText("failed")
    /\ source_mesh_tri = FileMesh("solid")
    /\ source_mesh_pv = pv_wrap(source_mesh_tri)
    /\ Len(picked_points) = 3

\* C14: the validity check is advisory: once the Subtract action has passed
\* the torus computation, subtract_meshes is called, on the stored source
\* mesh as it is, whatever check_mesh_validity reported about it.
C14_ValidityAdvisory ==
    status = "Processing boolean subtraction..." =>
        /\ call.pc # "idle"
        /\ call.target = source_mesh_tri
        /\ ui = "qt" => val_out = check_mesh_validity(source_mesh_tri)

\* The check failed on an open shell and the subtraction went through.
C14_Witness ==
    /\ ui = "qt"
    /\ val_out = Tuple(<<FALSE, <<"Mesh is not watertight (has holes)">>>>)
    /\ call.pc = "returned"
    /\ call.target = FileMesh("shell")
    /\ call.ret.kind = "mesh"

\* Three points are held and fit_circle_3d returns None for them.
CollinearHeld(points) ==
    /\ Len(points) = 3
    /\ fit_of_picked[<<points[1], points[2], points[3]>>] = None

\* C15: with three collinear points held no preview is shown, Subtract is
\* not enabled and subtract_meshes is not called; the pick that completes
\* the triple, a preview request and a Qt radius change, which consult
\* fit_circle_3d, build no torus, leave the stored model as it is and leave
\* the status reading the collinear-points error.
C15_CollinearRefused ==
    [][CollinearHeld(picked_points') =>
          /\ preview' = None
          /\ ~can_subtract'
          /\ call'.pc = "idle"
          /\ \/ /\ status' = "Error: Points are collinear!"
                /\ source_mesh_tri' = source_mesh_tri
                /\ source_mesh_pv' = source_mesh_pv
             \/ ~(\/ picked_points' # picked_points
                  \/ ui = "qt" /\ minor_radius' # minor_radius
                  \/ UiPreview)]_vars

\* Three collinear points are held after the third pick, in the Qt viewer
\* after a radius change as well.
C15_Witness ==
    /\ CollinearHeld(picked_points)
    /\ ui = "qt"
    /\ minor_radius # InitialRadius
    /\ source_mesh_tri = FileMesh("solid")
    /\ status = "Error: Points are collinear!"
    /\ preview = None
    /\ ~can_subtract

\* C16: the Subtract action that ends with a non-empty result stores that
\* result as the operations mesh, its wrap as the display mesh and shows it,
\* clears the picked points and the preview and disables Preview and
\* Subtract; the two stay disabled while fewer than three points are held.
C16_SuccessReplacesModel ==
    [][/\ (call.pc = "returned" /\ call'.pc = "idle"
           /\ call.ret.kind = "mesh" /\ ~call.ret.empty)
          => /\ source_mesh_tri' = call.ret
             /\ source_mesh_pv' = pv_wrap(call.ret)
             /\ plotted' = source_mesh_pv'
             /\ picked_points' = <<>>
             /\ preview' = None
             /\ ~can_preview'
             /\ ~can_subtract'
       /\ (can_preview' \/ can_subtract') => Len(picked_points') = 3]_vars

\* A subtraction has just replaced the loaded model by the cut one.
C16_Witness ==
    /\ call.pc = "idle"
    /\ status = StatusText("complete")
    /\ source_mesh_tri.id.cuts = 1
    /\ source_mesh_tri.id.by = "direct"
    /\ source_mesh_pv = pv_wrap(source_mesh_tri)
    /\ plotted = source_mesh_pv
    /\ picked_points = <<>>
    /\ ~can_subtract

\* C17: at most three points are held, and once three are held they stay
\* as they are until they are cleared (a further pick changes nothing);
\* Subtract is enabled only while exactly three points are held that are
\* not collinear and the preview shows the torus built from them.
C17_PointsAndSubtract ==
    [][/\ Len(picked_points') <= 3
       /\ Len(picked_points) = 3 => picked_points' \in {picked_points, <<>>}
       /\ can_subtract' =>
             /\ Len(picked_points') = 3
             /\ ~CollinearHeld(picked_points')
             /\ preview' # None
             /\ preview'.id.torus = picked_points']_vars

\* Subtract is enabled on three points in the web viewer, where the radius
\* has been changed since the preview.
C17_Witness ==
    /\ ui = "web"
    /\ can_subtract
    /\ Len(picked_points) = 3
    /\ preview = Torus(picked_points, InitialRadius)
    /\ minor_radius # InitialRadius

\* C19: the tool mesh passed to subtract_meshes is the torus that the
\* preview shows: built from the same three points and the same tube radius.
C19_CutIsPreviewed ==
    call.pc # "idle" => call.tool = preview

\* C20: the display mesh and the operations mesh are the same model: both
\* absent, or the display mesh is the wrap of the operations mesh.
C20_MeshesAgree ==
    \/ source_mesh_tri = None /\ source_mesh_pv = None
    \/ source_mesh_tri # None /\ source_mesh_pv = pv_wrap(source_mesh_tri)

==============================================================================
